---- MODULE Spec2Model ----
(***************************************************************************)
(* Slot reservation engine of the booking system: schedule configuration,  *)
(* slot generation, availability queries over the bookings table, and the  *)
(* submit_booking handler, whose availability check and INSERT are         *)
(* separate database accesses that concurrent requests may interleave.     *)
(*                                                                         *)
(* Strings.  A date string is a string; strptime('%Y-%m-%d') is the        *)
(* partial table DayOf (several spellings may parse to the same day).  A   *)
(* time string 'HH:MM' is the pair <<h, m>>, the empty string is <<>>;     *)
(* strptime('%H:%M') gives minutes since midnight and strftime gives the   *)
(* pair back.  An age or cabin form field is a string and int() is the     *)
(* partial table IntOf.  The person fields (name, email, gender, phone) are     *)
(* opaque to the engine and abstracted to one field, person.               *)
(***************************************************************************)
EXTENDS Integers, Sequences, FiniteSets, TLC

\* ------------------------------------------------------------------ bounds

\* Number of concurrent client requests (each submits one booking).
NumClients == 2

\* Last calendar day the clock may reach.
LastDay == 3

\* Most slots a traced call of generate_time_slots appends before the trace
\* stops following it.
MaxSlots == 16

Clients == 1..NumClients

\* ----------------------------------------------------------- string tables

\* A missing form field (request.form.get returns None).
None == "<None>"

\* datetime.strptime(s, '%Y-%m-%d').date(): the day number of each string that
\* parses; a string outside the domain raises ValueError.  "2025-8-19" is a
\* second spelling of day 2 (strptime accepts unpadded fields).
DayOf ==
  ("2025-08-18" :> 1) @@ ("2025-08-19" :> 2) @@ ("2025-8-19" :> 2) @@
  ("2025-08-20" :> 3)

\* int(s) for the age and cabin form fields; a string outside the domain
\* raises ValueError.
IntOf == ("1" :> 1) @@ ("2" :> 2) @@ ("30" :> 30)

\* Python truthiness of a form string (None and '' are falsy).
Truthy(s) == s # None /\ s # ""

\* Python truthiness of a time string.
TruthyTime(t) == t # <<>>

\* datetime.strptime(t, '%H:%M'): minutes since midnight.
ParseTime(t) == t[1] * 60 + t[2]

\* datetime.strftime('%H:%M') of a time of the same day.
FormatTime(m) == <<(m \div 60) % 24, m % 60>>

\* ------------------------------------------------------------------- utils

\* utils.is_valid_date with date.today() = day.  strptime(None) raises
\* TypeError, which is_valid_date does not catch: the result "raise".
is_valid_date(date_string, day) ==
  IF date_string = None THEN "raise"
  ELSE IF date_string \notin DOMAIN DayOf THEN "false"
  ELSE IF DayOf[date_string] >= day THEN "true" ELSE "false"

\* Mutant of SlotFits: a slot that ends exactly at closing time is left out.
SlotFits_EndsBefore(current, end, duration) == current + duration < end

\* The loop condition of generate_time_slots.
SlotFits(current, end, duration) == current + duration <= end

\* The while loop of generate_time_slots, from the time `current` on (for a
\* duration > 0, with which the loop ends).
RECURSIVE SlotsFrom(_, _, _)
SlotsFrom(current, end, duration) ==
  IF SlotFits(current, end, duration)
  THEN <<FormatTime(current)>> \o SlotsFrom(current + duration, end, duration)
  ELSE <<>>

\* utils.generate_time_slots.
generate_time_slots(start_time, end_time, duration) ==
  SlotsFrom(ParseTime(start_time), ParseTime(end_time), duration)

\* x in list
InList(x, list) == \E i \in 1..Len(list) : list[i] = x


\* ------------------------------------------------------------------- state

VARIABLES
  config,    \* config_manager._config, the live configuration
  bookings,  \* the rows of table bookings
  next_id,   \* the next AUTOINCREMENT id of table bookings
  today,     \* date.today(), a day number
  req,       \* per client: the position of its submit_booking request
  reply,     \* the last availability query: its arguments and what it returned
  gen,       \* a call of generate_time_slots in progress: its locals
  del_req    \* per client: the position of its delete_booking request

vars == <<config, bookings, next_id, today, req, reply, gen, del_req>>

\* config.DEFAULT_CONFIG, scaled down: two locations, two Primary slots
\* (09:00, 09:15), one Primary cabin for one person, one Secondary slot (10:00)
\* in one cabin for one person.
InitConfig ==
  [ locations                     |-> <<"bangalore", "pune">>,
    blood_test_start_time         |-> <<9, 0>>,
    blood_test_end_time           |-> <<9, 30>>,
    blood_test_allowed_dates      |-> <<"2025-08-18", "2025-08-19">>,
    slot_duration_blood           |-> 15,
    blood_test_cabins_count       |-> 1,
    people_per_blood_cabin        |-> 1,
    consultation_start_time       |-> <<10, 0>>,
    consultation_end_time         |-> <<10, 30>>,
    slot_duration_consultation    |-> 30,
    consultation_cabins_count     |-> 1,
    people_per_consultation_cabin |-> 1,
    consultation_allowed_dates    |-> <<"2025-08-18", "2025-08-20">> ]

\* No availability query was made yet.
NoReply == [query |-> "none"]

\* The last reply once the configuration, the date or the table may have
\* changed since it was returned.
Stale(r) == IF r = NoReply THEN r ELSE [r EXCEPT !.stale = TRUE]

\* No call of generate_time_slots is being traced.
NoCall == [pc |-> "none"]

\* A client with no delete_booking request in flight.
NoDelete == [pc |-> "idle", booking_id |-> 0, found |-> FALSE, success |-> FALSE]

\* A client with no request in flight.
Idle == [pc |-> "idle", data |-> <<>>, reason |-> "", booking_id |-> 0]

\* ------------------------------------------------- availability (read-only)

\* Range of a list
ListSet(list) == {list[i] : i \in 1..Len(list)}

\* Mutant of BloodBookedCount: the WHERE clause has no location.
BloodBookedCount_AnyLocation(rows, date, cabin, location, slot) ==
  Cardinality({b \in rows : /\ b.blood_test_date = date
                            /\ b.blood_test_cabin = cabin
                            /\ b.blood_test_time = slot})

\* SELECT ... WHERE blood_test_date = ? AND blood_test_cabin = ? AND location = ?
\* GROUP BY blood_test_time, read at key slot (booked_slots.get(slot, 0)).
BloodBookedCount(rows, date, cabin, location, slot) ==
  Cardinality({b \in rows : /\ b.blood_test_date = date
                            /\ b.blood_test_cabin = cabin
                            /\ b.location = location
                            /\ b.blood_test_time = slot})

\* Mutant of CabinBookedCount: the rows are not grouped by cabin.
CabinBookedCount_AnyCabin(rows, date, location, cabin) ==
  Cardinality({b \in rows : /\ b.blood_test_date = date
                            /\ b.location = location})

\* SELECT blood_test_cabin, COUNT(*) ... WHERE blood_test_date = ? AND
\* blood_test_cabin IS NOT NULL AND location = ? GROUP BY blood_test_cabin,
\* read at key cabin.
CabinBookedCount(rows, date, location, cabin) ==
  Cardinality({b \in rows : /\ b.blood_test_date = date
                            /\ b.blood_test_cabin = cabin
                            /\ b.location = location})

\* Mutant of ConsultationBookedCount: the WHERE clause has no location.
ConsultationBookedCount_AnyLocation(rows, date, location, slot) ==
  Cardinality({b \in rows : /\ b.consultation_date = date
                            /\ b.consultation_time = slot})

\* SELECT consultation_time ... WHERE consultation_date = ? AND
\* consultation_time IS NOT NULL AND location = ?, then booked_slots.count(slot).
ConsultationBookedCount(rows, date, location, slot) ==
  Cardinality({b \in rows : /\ b.consultation_date = date
                            /\ b.consultation_time = slot
                            /\ b.location = location})

\* max(0, x)
Max0(x) == IF x > 0 THEN x ELSE 0

\* The generated Primary slots of a configuration.
BloodSlots(cfg) ==
  generate_time_slots(cfg.blood_test_start_time, cfg.blood_test_end_time,
                      cfg.slot_duration_blood)

\* The generated Secondary slots of a configuration.
ConsultationSlots(cfg) ==
  generate_time_slots(cfg.consultation_start_time, cfg.consultation_end_time,
                      cfg.slot_duration_consultation)

\* Mutant of get_cabin_availability: a cabin's capacity is that of one slot.
get_cabin_availability_OneSlot(date, location, cfg, day, rows) ==
  IF is_valid_date(date, day) # "true" THEN <<>>
  ELSE [cabin \in 1..cfg.blood_test_cabins_count |->
          Max0(cfg.people_per_blood_cabin
               - CabinBookedCount(rows, date, location, cabin))]

\* BloodTestService.get_cabin_availability (date not None): cabin -> seats.
get_cabin_availability(date, location, cfg, day, rows) ==
  IF is_valid_date(date, day) # "true" THEN <<>>
  ELSE [cabin \in 1..cfg.blood_test_cabins_count |->
          Max0(Len(BloodSlots(cfg)) * cfg.people_per_blood_cabin
               - CabinBookedCount(rows, date, location, cabin))]

\* Mutant of BloodSlotOpen: a slot is open only while nobody has booked it.
BloodSlotOpen_Unbooked(cfg, rows, date, cabin, location, slot) ==
  BloodBookedCount(rows, date, cabin, location, slot) = 0

\* Mutant of BloodSlotOpen: the comparison admits one booking too many.
BloodSlotOpen_OffByOne(cfg, rows, date, cabin, location, slot) ==
  BloodBookedCount(rows, date, cabin, location, slot) <= cfg.people_per_blood_cabin

\* Whether a Primary slot still has room: booked_count < people_per_cabin.
BloodSlotOpen(cfg, rows, date, cabin, location, slot) ==
  BloodBookedCount(rows, date, cabin, location, slot) < cfg.people_per_blood_cabin

\* BloodTestService.get_available_slots (date not None): the open slots.
Blood_get_available_slots(date, cabin, location, cfg, day, rows) ==
  IF is_valid_date(date, day) # "true" THEN <<>>
  ELSE SelectSeq(BloodSlots(cfg),
                 LAMBDA slot : BloodSlotOpen(cfg, rows, date, cabin, location, slot))

\* Mutant of SlotSeats: the capacity is the one the process started with.
SlotSeats_StartupCapacity(cfg, rows, date, cabin, location, slot) ==
  Max0(InitConfig.people_per_blood_cabin
       - BloodBookedCount(rows, date, cabin, location, slot))

\* Mutant of SlotSeats: the difference is reported without the floor at 0.
SlotSeats_NoFloor(cfg, rows, date, cabin, location, slot) ==
  cfg.people_per_blood_cabin - BloodBookedCount(rows, date, cabin, location, slot)

\* The value get_slots_with_availability reports for one slot.
SlotSeats(cfg, rows, date, cabin, location, slot) ==
  Max0(cfg.people_per_blood_cabin
       - BloodBookedCount(rows, date, cabin, location, slot))

\* BloodTestService.get_slots_with_availability (date not None): slot -> seats.
get_slots_with_availability(date, cabin, location, cfg, day, rows) ==
  IF is_valid_date(date, day) # "true" THEN <<>>
  ELSE [slot \in ListSet(BloodSlots(cfg)) |->
          SlotSeats(cfg, rows, date, cabin, location, slot)]

\* Mutant of ConsultationSlotOpen: the capacity is that of one cabin.
ConsultationSlotOpen_OneCabin(cfg, rows, date, location, slot) ==
  ConsultationBookedCount(rows, date, location, slot)
    < cfg.people_per_consultation_cabin

\* Whether a Secondary slot still has room in the pool of cabins.
ConsultationSlotOpen(cfg, rows, date, location, slot) ==
  ConsultationBookedCount(rows, date, location, slot)
    < cfg.consultation_cabins_count * cfg.people_per_consultation_cabin

\* ConsultationService.get_available_slots (date not None): is_none when the
\* method returns None, else the open slots.
Consultation_get_available_slots(date, location, cfg, day, rows) ==
  IF is_valid_date(date, day) # "true" THEN [is_none |-> TRUE, slots |-> <<>>]
  ELSE [is_none |-> FALSE,
        slots   |-> SelectSeq(ConsultationSlots(cfg),
                      LAMBDA slot : ConsultationSlotOpen(cfg, rows, date, location, slot))]


\* ------------------------------------------------------------ request forms

\* The Primary part of a submitted form: no Primary fields at all (absent or
\* empty), or a date, a time and a cabin field.
PrimaryLegs ==
  { [blood_test_date |-> d, blood_test_time |-> <<>>, blood_test_cabin |-> ""] :
      d \in {None, ""} }
  \cup
  [ blood_test_date  : {"2025-08-18", "2025-08-19", "2025-8-19", "2025-08-20"},
    blood_test_time  : {<<>>, <<9, 0>>, <<9, 15>>},
    blood_test_cabin : {"x", "1", "2"} ]

\* The Secondary part of a submitted form.
SecondaryLegs ==
  [ consultation_date : {"", "2025-08-18", "2025-08-19", "2025-08-20"},
    consultation_time : {<<>>, <<10, 0>>} ]

\* A form of the given person fields, location and legs.
Form(person, age, location, p, s) ==
  [ person            |-> person,
    age               |-> age,
    location          |-> location,
    blood_test_date   |-> p.blood_test_date,
    blood_test_time   |-> p.blood_test_time,
    blood_test_cabin  |-> p.blood_test_cabin,
    consultation_date |-> s.consultation_date,
    consultation_time |-> s.consultation_time ]

\* The booking of the first Primary slot of cabin 1 on an offered date.
BasePrimary ==
  [blood_test_date |-> "2025-08-19", blood_test_time |-> <<9, 0>>,
   blood_test_cabin |-> "1"]

\* The booking of the Secondary slot on an offered date.
BaseSecondary ==
  [consultation_date |-> "2025-08-20", consultation_time |-> <<10, 0>>]

\* No Secondary fields.
NoSecondary == [consultation_date |-> "", consultation_time |-> <<>>]

\* The forms clients submit.  At the first location: every Primary leg with
\* no or the base Secondary leg, and every Secondary leg with the base Primary
\* leg.  At the second location: the base bookings.  Each defect of the
\* person fields or location with the base booking of both legs.  And a cabin
\* that is not a number on a form with no Primary date.
Forms ==
  { Form("asha", "30", "bangalore", p, s) :
      p \in PrimaryLegs, s \in {NoSecondary, BaseSecondary} }
  \cup
  { Form("asha", "30", "bangalore", BasePrimary, s) : s \in SecondaryLegs }
  \cup
  { Form("asha", "30", "pune", BasePrimary, s) : s \in {NoSecondary, BaseSecondary} }
  \cup
  { Form(n, a, l, BasePrimary, BaseSecondary) :
      n \in {"", "asha"}, a \in {"", "abc", "30"}, l \in {"", "mars", "pune"} }
  \cup
  { Form("asha", "30", "bangalore",
         [blood_test_date |-> "", blood_test_time |-> <<>>, blood_test_cabin |-> "x"],
         BaseSecondary) }

\* --------------------------------------------------------- submit_booking

\* utils.validate_booking_data: [ok, reason, data].  int(blood_test_cabin)
\* raising is caught by the function's outer except.
validate_booking_data(form, cfg, day) ==
  LET Reject(msg) == [ok |-> FALSE, reason |-> msg, data |-> <<>>] IN
  IF ~ (Truthy(form.person) /\ Truthy(form.age) /\ Truthy(form.location))
  THEN Reject("Please fill in all required fields")
  ELSE IF ~ InList(form.location, cfg.locations)
  THEN Reject("Invalid location selected")
  ELSE IF form.age \notin DOMAIN IntOf
  THEN Reject("Invalid age or cabin number")
  ELSE IF Truthy(form.blood_test_date) /\ form.blood_test_cabin \notin DOMAIN IntOf
  THEN Reject("Error validating data")
  ELSE IF Truthy(form.blood_test_date)
          /\ is_valid_date(form.blood_test_date, day) # "true"
  THEN Reject("Invalid blood test date or date is in the past")
  ELSE IF Truthy(form.consultation_date)
          /\ is_valid_date(form.consultation_date, day) # "true"
  THEN Reject("Invalid consultation date or date is in the past")
  ELSE [ ok     |-> TRUE,
         reason |-> "",
         data   |->
           [ location          |-> form.location,
             blood_test_date   |-> form.blood_test_date,
             blood_test_time   |-> form.blood_test_time,
             blood_test_cabin  |-> IF Truthy(form.blood_test_date)
                                   THEN IntOf[form.blood_test_cabin]
                                   ELSE form.blood_test_cabin,
             consultation_date |-> form.consultation_date,
             consultation_time |-> form.consultation_time ] ]

\* app.validate_location
validate_location(location, cfg) == InList(location, cfg.locations)

\* Mutant of validate_blood_test_date: the allow-list is not consulted.
validate_blood_test_date_AnyDate(date_str, cfg) == date_str \in DOMAIN DayOf

\* app.validate_blood_test_date (date_str not None)
validate_blood_test_date(date_str, cfg) ==
  date_str \in DOMAIN DayOf /\ InList(date_str, cfg.blood_test_allowed_dates)

\* app.validate_consultation_date (date_str not None)
validate_consultation_date(date_str, cfg) ==
  date_str \in DOMAIN DayOf /\ InList(date_str, cfg.consultation_allowed_dates)

\* A request that ended without writing, with the message the handler prints.
Rejected(msg) == [pc |-> "rejected", data |-> <<>>, reason |-> msg, booking_id |-> 0]

\* submit_booking up to its allow-list checks: the request of client c after
\* validate_booking_data, validate_location and the two date checks.
Validated(form, cfg, day) ==
  LET v == validate_booking_data(form, cfg, day) IN
  IF ~ v.ok THEN Rejected(v.reason)
  ELSE IF ~ validate_location(v.data.location, cfg)
  THEN Rejected("Invalid location selected.")
  ELSE IF Truthy(v.data.blood_test_date)
          /\ ~ validate_blood_test_date(v.data.blood_test_date, cfg)
  THEN Rejected("Invalid blood test date. Please select from the available dates.")
  ELSE IF Truthy(v.data.consultation_date)
          /\ ~ validate_consultation_date(v.data.consultation_date, cfg)
  THEN Rejected("Invalid consultation date. Please select from the available dates.")
  ELSE [pc |-> "validated", data |-> v.data, reason |-> "", booking_id |-> 0]

\* Whether validate_slot_availability goes on to check the Secondary leg.
HasConsultation(data) ==
  Truthy(data.consultation_date) /\ TruthyTime(data.consultation_time)

\* validate_slot_availability up to and including the Primary check, which
\* reads the bookings table once: the request after it.
BloodChecked(data, cfg, day, rows) ==
  IF ~ Truthy(data.location) THEN Rejected("Location is required")
  ELSE IF ~ InList(data.location, cfg.locations)
  THEN Rejected("Invalid location selected")
  ELSE IF is_valid_date(data.blood_test_date, day) = "raise"
  THEN Rejected("Error processing booking")
  ELSE IF ~ InList(data.blood_test_time,
                   Blood_get_available_slots(data.blood_test_date,
                     data.blood_test_cabin, data.location, cfg, day, rows))
  THEN Rejected("Selected blood test slot is no longer available")
  ELSE [pc |-> IF HasConsultation(data) THEN "blood_ok" ELSE "slot_ok",
        data |-> data, reason |-> "", booking_id |-> 0]

\* Mutant of ConsultationChecked: the rejection carries the Primary message.
ConsultationChecked_BloodMessage(data, cfg, day, rows) ==
  LET consultation_available ==
        Consultation_get_available_slots(data.consultation_date, data.location,
                                         cfg, day, rows) IN
  IF consultation_available.is_none THEN Rejected("Error processing booking")
  ELSE IF ~ InList(data.consultation_time, consultation_available.slots)
  THEN Rejected("Selected blood test slot is no longer available")
  ELSE [pc |-> "slot_ok", data |-> data, reason |-> "", booking_id |-> 0]

\* Mutant of ConsultationChecked: a full Secondary slot does not reject.
ConsultationChecked_IgnoresFull(data, cfg, day, rows) ==
  IF Consultation_get_available_slots(data.consultation_date, data.location,
                                      cfg, day, rows).is_none
  THEN Rejected("Error processing booking")
  ELSE [pc |-> "slot_ok", data |-> data, reason |-> "", booking_id |-> 0]

\* The Secondary check of validate_slot_availability, which reads the bookings
\* table a second time: the request after it.  Searching the None returned
\* for an invalid date raises TypeError, caught by submit_booking.
ConsultationChecked(data, cfg, day, rows) ==
  LET consultation_available ==
        Consultation_get_available_slots(data.consultation_date, data.location,
                                         cfg, day, rows) IN
  IF consultation_available.is_none THEN Rejected("Error processing booking")
  ELSE IF ~ InList(data.consultation_time, consultation_available.slots)
  THEN Rejected("Selected consultation slot is no longer available")
  ELSE [pc |-> "slot_ok", data |-> data, reason |-> "", booking_id |-> 0]

\* The row save_booking inserts: one INSERT carrying both legs.
NewRow(id, data) ==
  [ id                |-> id,
    location          |-> data.location,
    blood_test_date   |-> data.blood_test_date,
    blood_test_time   |-> data.blood_test_time,
    blood_test_cabin  |-> data.blood_test_cabin,
    consultation_date |-> data.consultation_date,
    consultation_time |-> data.consultation_time ]

\* Mutant of save_booking: one INSERT per leg, two rows.
save_booking_PerLeg(rows, id, data) ==
  rows \cup {NewRow(id, data), NewRow(id + 1, data)}

\* database.save_booking: the table after the INSERT.
save_booking(rows, id, data) == rows \cup {NewRow(id, data)}

\* Client c posts the given form; submit_booking validates it.
Submit(c, form) ==
  /\ req[c].pc = "idle"
  /\ req' = [req EXCEPT ![c] = Validated(form, config, today)]
  /\ UNCHANGED <<config, bookings, next_id, today, reply, gen, del_req>>

\* Client c posts a form.
SubmitBooking(c) == \E form \in Forms : Submit(c, form)

\* submit_booking calls validate_slot_availability: the Primary check.
CheckBlood(c) ==
  /\ req[c].pc = "validated"
  /\ req' = [req EXCEPT ![c] = BloodChecked(req[c].data, config, today, bookings)]
  /\ UNCHANGED <<config, bookings, next_id, today, reply, gen, del_req>>

\* Mutant of CheckConsultation: the row is written before the Secondary
\* check and stays when the check rejects the submission.
CheckConsultation_WritesFirst(c) ==
  /\ req[c].pc = "blood_ok"
  /\ req' = [req EXCEPT ![c] =
               ConsultationChecked(req[c].data, config, today, bookings)]
  /\ IF req'[c].pc = "rejected"
     THEN /\ bookings' = save_booking(bookings, next_id, req[c].data)
          /\ next_id' = next_id + 1
     ELSE UNCHANGED <<bookings, next_id>>
  /\ UNCHANGED <<config, today, reply, gen, del_req>>

\* validate_slot_availability goes on to the Secondary check.
CheckConsultation(c) ==
  /\ req[c].pc = "blood_ok"
  /\ req' = [req EXCEPT ![c] =
               ConsultationChecked(req[c].data, config, today, bookings)]
  /\ UNCHANGED <<config, bookings, next_id, today, reply, gen, del_req>>

\* Mutant of SaveBooking: id is INTEGER PRIMARY KEY without AUTOINCREMENT, so
\* the new row gets one more than the largest id stored.
SaveBooking_MaxRowid(c) ==
  LET ids == {b.id : b \in bookings}
      id  == IF ids = {} THEN 1
             ELSE (CHOOSE m \in ids : \A k \in ids : k <= m) + 1
  IN  /\ req[c].pc = "slot_ok"
      /\ bookings' = save_booking(bookings, id, req[c].data)
      /\ next_id' = next_id + 1
      /\ req' = [req EXCEPT ![c] =
                   [pc |-> "committed", data |-> <<>>, reason |-> "",
                    booking_id |-> id]]
      /\ reply' = Stale(reply)
      /\ UNCHANGED <<config, today, gen, del_req>>

\* submit_booking saves the booking and redirects to booking_success.
SaveBooking(c) ==
  /\ req[c].pc = "slot_ok"
  /\ bookings' = save_booking(bookings, next_id, req[c].data)
  /\ next_id' = next_id + 1
  /\ req' = [req EXCEPT ![c] =
               [pc |-> "committed", data |-> <<>>, reason |-> "",
                booking_id |-> next_id]]
  /\ reply' = Stale(reply)
  /\ UNCHANGED <<config, today, gen, del_req>>

\* ------------------------------------------------------------------ admin

\* Mutant of delete_booking_by_id: DELETE ... WHERE id >= ?
delete_booking_by_id_FromId(rows, booking_id) == {b \in rows : b.id < booking_id}

\* database.delete_booking_by_id
delete_booking_by_id(rows, booking_id) == {b \in rows : b.id # booking_id}

\* The admin deletes a booking record.
DeleteBooking ==
  /\ \E b \in bookings : bookings' = delete_booking_by_id(bookings, b.id)
  /\ reply' = Stale(reply)
  /\ UNCHANGED <<config, next_id, today, req, gen, del_req>>

\* The ids delete_booking is called with: those of the rows there can be and
\* one that is never stored.
DeletedIds == 1..(NumClients + 1)

\* delete_booking_by_id up to its 'if not booking': SELECT name ... WHERE
\* id = ?; with no such row it returns (False, None).
DeleteSelect(c, booking_id) ==
  /\ del_req[c].pc = "idle"
  /\ LET booking == {b \in bookings : b.id = booking_id} IN
     del_req' = [del_req EXCEPT ![c] =
                   [ pc         |-> IF booking = {} THEN "done" ELSE "found",
                     booking_id |-> booking_id,
                     found      |-> booking # {},
                     success    |-> FALSE ]]
  /\ UNCHANGED <<config, bookings, next_id, today, req, reply, gen>>

\* Mutant of DeleteExecute: success is what the SELECT found.
DeleteExecute_TrustsSelect(c) ==
  /\ del_req[c].pc = "found"
  /\ bookings' = delete_booking_by_id(bookings, del_req[c].booking_id)
  /\ del_req' = [del_req EXCEPT ![c].pc = "done", ![c].success = TRUE]
  /\ reply' = Stale(reply)
  /\ UNCHANGED <<config, next_id, today, req, gen>>

\* delete_booking_by_id from its DELETE: DELETE ... WHERE id = ?, commit,
\* success = cursor.rowcount > 0.
DeleteExecute(c) ==
  /\ del_req[c].pc = "found"
  /\ bookings' = delete_booking_by_id(bookings, del_req[c].booking_id)
  /\ del_req' = [del_req EXCEPT
                   ![c].pc = "done",
                   ![c].success = Cardinality(bookings) - Cardinality(bookings') > 0]
  /\ reply' = Stale(reply)
  /\ UNCHANGED <<config, next_id, today, req, gen>>

\* ConfigValidator.validate_time_format: 'HH:MM' parses.
validate_time_format(t) == Len(t) = 2 /\ t[1] \in 0..23 /\ t[2] \in 0..59

\* ConfigValidator.validate_time_range: both parse and start < end.
validate_time_range(start_time, end_time) ==
  /\ validate_time_format(start_time)
  /\ validate_time_format(end_time)
  /\ ParseTime(start_time) < ParseTime(end_time)

\* ConfigValidator.validate_positive_integer
validate_positive_integer(value, min_val, max_val) ==
  value >= min_val /\ value <= max_val

\* len(list) != len(set(list))
HasDuplicates(list) == Len(list) # Cardinality(ListSet(list))

\* ConfigValidator.validate_locations (names are alphanumeric here)
validate_locations(locations) ==
  /\ Len(locations) > 0
  /\ ~ HasDuplicates(locations)
  /\ \A i \in 1..Len(locations) : locations[i] # ""

\* ConfigValidator.validate_dates_list
validate_dates_list(dates) ==
  /\ Len(dates) > 0
  /\ ~ HasDuplicates(dates)
  /\ \A i \in 1..Len(dates) : dates[i] \in DOMAIN DayOf

\* ConfigValidator.validate_config: no error is reported.
validate_config(cfg) ==
  /\ validate_locations(cfg.locations)
  /\ validate_time_format(cfg.blood_test_start_time)
  /\ validate_time_format(cfg.blood_test_end_time)
  /\ validate_time_range(cfg.blood_test_start_time, cfg.blood_test_end_time)
  /\ validate_positive_integer(cfg.slot_duration_blood, 5, 120)
  /\ validate_positive_integer(cfg.blood_test_cabins_count, 1, 20)
  /\ validate_positive_integer(cfg.people_per_blood_cabin, 1, 10)
  /\ validate_dates_list(cfg.blood_test_allowed_dates)
  /\ validate_time_format(cfg.consultation_start_time)
  /\ validate_time_format(cfg.consultation_end_time)
  /\ validate_time_range(cfg.consultation_start_time, cfg.consultation_end_time)
  /\ validate_positive_integer(cfg.slot_duration_consultation, 15, 120)
  /\ validate_positive_integer(cfg.consultation_cabins_count, 1, 20)
  /\ validate_positive_integer(cfg.people_per_consultation_cabin, 1, 5)
  /\ validate_dates_list(cfg.consultation_allowed_dates)

\* The configuration forms the admin posts: the defaults with one setting
\* changed, to an acceptable or to an unacceptable value.
AdminForms ==
  { [InitConfig EXCEPT !.people_per_blood_cabin = n] : n \in {0, 2} }
  \cup { [InitConfig EXCEPT !.blood_test_cabins_count = n] : n \in {21} }
  \cup { [InitConfig EXCEPT !.blood_test_end_time = t] : t \in {<<9, 0>>} }
  \cup { [InitConfig EXCEPT !.blood_test_allowed_dates = d] :
           d \in {<<>>, <<"2025-08-20">>} }
  \cup { [InitConfig EXCEPT !.slot_duration_blood = n] : n \in {4} }
  \cup { [InitConfig EXCEPT !.people_per_consultation_cabin = n] : n \in {6} }
  \cup { [InitConfig EXCEPT !.locations = l] : l \in {<<>>, <<"pune", "pune">>} }
  \cup { [InitConfig EXCEPT !.consultation_allowed_dates = d] :
           d \in {<<"2025-08-18", "2025-08-18">>, <<"not-a-date">>} }

\* Mutant of admin_config_save: the form is applied without validate_config.
admin_config_save_Unvalidated(cfg, form) ==
  IF Len(form.locations) = 0 \/ Len(form.blood_test_allowed_dates) = 0
     \/ Len(form.consultation_allowed_dates) = 0
  THEN cfg
  ELSE form

\* app.admin_config_save: the live configuration after the form is posted
\* (update_multiple then reload_config), or unchanged when validation fails.
admin_config_save(cfg, form) ==
  IF Len(form.locations) = 0 \/ Len(form.blood_test_allowed_dates) = 0
     \/ Len(form.consultation_allowed_dates) = 0
  THEN cfg
  ELSE IF ~ validate_config(form) THEN cfg
  ELSE form

\* The admin posts a configuration form.
AdminConfigSave ==
  /\ \E form \in AdminForms : config' = admin_config_save(config, form)
  /\ reply' = Stale(reply)
  /\ UNCHANGED <<bookings, next_id, today, req, gen, del_req>>

\* app.admin_config_reset: back to DEFAULT_CONFIG.
AdminConfigReset ==
  /\ config' = InitConfig
  /\ reply' = Stale(reply)
  /\ UNCHANGED <<bookings, next_id, today, req, gen, del_req>>

\* Midnight passes: date.today() moves on.
AdvanceDay ==
  /\ today < LastDay
  /\ today' = today + 1
  /\ reply' = Stale(reply)
  /\ UNCHANGED <<config, bookings, next_id, req, gen, del_req>>

\* ------------------------------------------------------ availability queries

\* The dates, cabins and locations clients ask availability for: a past date,
\* two dates not in the past, a string that is no date; both cabins; a
\* configured location and an unknown one.
AskedDates == {"2025-08-18", "2025-08-19", "2025-08-20", "not-a-date"}
AskedCabins == {1, 2}
AskedLocations == {"bangalore", "mars"}

\* What a query hands back, with the number of commits made before it.
Reply(query, date, cabin, location, result) ==
  [ query |-> query, date |-> date, cabin |-> cabin, location |-> location,
    result |-> result, at |-> next_id, stale |-> FALSE ]

\* A client calls BloodTestService.get_cabin_availability.
QueryCabinSummary(date, location) ==
  /\ reply' = Reply("cabin_summary", date, 0, location,
                    get_cabin_availability(date, location, config, today, bookings))
  /\ UNCHANGED <<config, bookings, next_id, today, req, gen, del_req>>

\* Mutant of QuerySlotDetail: the query holds the first slot for its caller
\* by writing a row.
QuerySlotDetail_Reserves(date, cabin, location) ==
  /\ reply' = Reply("slot_detail", date, cabin, location,
                    get_slots_with_availability(date, cabin, location, config,
                                                today, bookings))
  /\ bookings' = bookings \cup
       { [ id |-> next_id, location |-> location, blood_test_date |-> date,
           blood_test_time |-> <<9, 0>>, blood_test_cabin |-> cabin,
           consultation_date |-> "", consultation_time |-> <<>> ] }
  /\ UNCHANGED <<config, next_id, today, req, gen, del_req>>

\* A client calls BloodTestService.get_slots_with_availability.
QuerySlotDetail(date, cabin, location) ==
  /\ reply' = Reply("slot_detail", date, cabin, location,
                    get_slots_with_availability(date, cabin, location, config,
                                                today, bookings))
  /\ UNCHANGED <<config, bookings, next_id, today, req, gen, del_req>>

\* A client calls BloodTestService.get_available_slots.
QueryBloodOpenSlots(date, cabin, location) ==
  /\ reply' = Reply("blood_open_slots", date, cabin, location,
                    Blood_get_available_slots(date, cabin, location, config,
                                              today, bookings))
  /\ UNCHANGED <<config, bookings, next_id, today, req, gen, del_req>>

\* A client calls ConsultationService.get_available_slots.
QueryConsultationOpenSlots(date, location) ==
  /\ reply' = Reply("consultation_open_slots", date, 0, location,
                    Consultation_get_available_slots(date, location, config,
                                                     today, bookings))
  /\ UNCHANGED <<config, bookings, next_id, today, req, gen, del_req>>

\* ------------------------------------------------- generate_time_slots, traced

\* The locals of generate_time_slots(start_time, end_time, duration) when it
\* reaches its while loop: start, end and current are minutes since midnight
\* of the day strptime gives (current may leave that day).
Call(start_time, end_time, duration) ==
  [ pc         |-> "loop",
    start_time |-> start_time,
    end_time   |-> end_time,
    duration   |-> duration,
    end        |-> ParseTime(end_time),
    current    |-> ParseTime(start_time),
    slots      |-> <<>> ]

\* One iteration of the while loop: the condition holds, the slot is appended
\* and current moves on by the duration.
GenAppend ==
  /\ gen.pc = "loop"
  /\ SlotFits(gen.current, gen.end, gen.duration)
  /\ Len(gen.slots) < MaxSlots
  /\ gen' = [gen EXCEPT !.slots   = Append(@, FormatTime(gen.current)),
                        !.current = @ + gen.duration]
  /\ UNCHANGED <<config, bookings, next_id, today, req, reply, del_req>>

\* The loop condition fails and generate_time_slots returns slots.
GenReturn ==
  /\ gen.pc = "loop"
  /\ ~ SlotFits(gen.current, gen.end, gen.duration)
  /\ gen' = [gen EXCEPT !.pc = "done"]
  /\ UNCHANGED <<config, bookings, next_id, today, req, reply, del_req>>

\* The times and durations generate_time_slots is called with.
GenTimes == {<<9, 0>>, <<9, 30>>, <<10, 0>>, <<10, 10>>, <<13, 0>>}
GenDurations == {-15, 0, 15, 20, 30}

InitSlots ==
  /\ config = InitConfig
  /\ bookings = {}
  /\ next_id = 1
  /\ today = 2
  /\ req = [c \in Clients |-> Idle]
  /\ reply = NoReply
  /\ gen \in { Call(s, e, d) : s \in GenTimes, e \in GenTimes, d \in GenDurations }
  /\ del_req = [c \in Clients |-> NoDelete]

NextSlots == GenAppend \/ GenReturn

\* One call of generate_time_slots, for each input.
SpecSlots == InitSlots /\ [][NextSlots]_vars

\* ------------------------------------------------------------------- spec

Init ==
  /\ config = InitConfig
  /\ bookings = {}
  /\ next_id = 1
  /\ today = 2
  /\ req = [c \in Clients |-> Idle]
  /\ reply = NoReply
  /\ gen = NoCall
  /\ del_req = [c \in Clients |-> NoDelete]

Next ==
  \/ \E c \in Clients : SubmitBooking(c)
  \/ \E c \in Clients : CheckBlood(c)
  \/ \E c \in Clients : CheckConsultation(c)
  \/ \E c \in Clients : SaveBooking(c)
  \/ DeleteBooking
  \/ AdminConfigSave
  \/ AdminConfigReset
  \/ AdvanceDay

Spec == Init /\ [][Next]_vars


\* The system with the configuration held fixed: no admin configuration edit.
NextFixed ==
  \/ \E c \in Clients : SubmitBooking(c)
  \/ \E c \in Clients : CheckBlood(c)
  \/ \E c \in Clients : CheckConsultation(c)
  \/ \E c \in Clients : SaveBooking(c)
  \/ DeleteBooking
  \/ AdvanceDay

SpecFixed == Init /\ [][NextFixed]_vars

\* Whether a request has ended.
Ended(r) == r.pc \in {"committed", "rejected"}

\* A client posts a form while no other request is being processed.
SubmitBookingSeq(c) ==
  /\ \A d \in Clients : req[d].pc = "idle" \/ Ended(req[d])
  /\ SubmitBooking(c)

\* Submissions processed one after another, with a fixed configuration and
\* date.
NextSeq ==
  \/ \E c \in Clients : SubmitBookingSeq(c)
  \/ \E c \in Clients : CheckBlood(c)
  \/ \E c \in Clients : CheckConsultation(c)
  \/ \E c \in Clients : SaveBooking(c)
  \/ DeleteBooking

SpecSeq == Init /\ [][NextSeq]_vars

\* The clients of a burst: one more than the largest capacity tried.
BurstClients == 1..(NumClients + 1)

\* The form every client of a burst posts: one Primary key, no Secondary leg.
BurstForm == Form("asha", "30", "bangalore", BasePrimary, NoSecondary)

\* An empty table, and a Primary capacity N in 1..NumClients.
InitBurst ==
  /\ config \in { [InitConfig EXCEPT !.people_per_blood_cabin = n] :
                    n \in 1..NumClients }
  /\ bookings = {}
  /\ next_id = 1
  /\ today = 2
  /\ req = [c \in BurstClients |-> Idle]
  /\ reply = NoReply
  /\ gen = NoCall
  /\ del_req = [c \in Clients |-> NoDelete]

\* N + k concurrent submissions for one Primary key, nothing else running.
NextBurst ==
  \/ \E c \in BurstClients : Submit(c, BurstForm)
  \/ \E c \in BurstClients : CheckBlood(c)
  \/ \E c \in BurstClients : SaveBooking(c)

SpecBurst == InitBurst /\ [][NextBurst]_vars

\* The forms posted while availability is being queried: the base bookings.
AskedForms ==
  { Form("asha", "30", "bangalore", BasePrimary, s) :
      s \in {NoSecondary, BaseSecondary} }

\* A client posts one of the base bookings while no other request is being
\* processed.
SubmitAsked(c) ==
  /\ \A d \in Clients : req[d].pc = "idle" \/ Ended(req[d])
  /\ \E form \in AskedForms : Submit(c, form)

\* The configuration forms the admin posts while availability is being
\* queried: the defaults with a headcount of 2, with Primary opening hours of
\* one slot, with a slot longer than the Primary opening hours (no slot is
\* generated), with two Primary cabins, with two Secondary cabins and two
\* Secondary slots, and with a headcount of 0.
AskedAdminForms ==
  { [InitConfig EXCEPT !.people_per_blood_cabin = 2],
    [InitConfig EXCEPT !.blood_test_cabins_count = 2],
    [InitConfig EXCEPT !.consultation_cabins_count = 2,
                       !.slot_duration_consultation = 15],
    [InitConfig EXCEPT !.blood_test_end_time = <<9, 15>>],
    [InitConfig EXCEPT !.slot_duration_blood = 60],
    [InitConfig EXCEPT !.people_per_blood_cabin = 0] }

\* The admin posts one of these configuration forms.
AdminConfigSaveAsked ==
  /\ \E form \in AskedAdminForms : config' = admin_config_save(config, form)
  /\ reply' = Stale(reply)
  /\ UNCHANGED <<bookings, next_id, today, req, gen, del_req>>

\* Availability queries between sequential submissions, deletions and
\* configuration edits.
NextQuery ==
  \/ \E c \in Clients : SubmitAsked(c)
  \/ \E c \in Clients : CheckBlood(c)
  \/ \E c \in Clients : CheckConsultation(c)
  \/ \E c \in Clients : SaveBooking(c)
  \/ DeleteBooking
  \/ AdminConfigSaveAsked
  \/ AdminConfigReset
  \/ \E date \in AskedDates, location \in AskedLocations :
       QueryCabinSummary(date, location)
  \/ \E date \in AskedDates, cabin \in AskedCabins, location \in AskedLocations :
       QuerySlotDetail(date, cabin, location)
  \/ \E date \in AskedDates, cabin \in AskedCabins, location \in AskedLocations :
       QueryBloodOpenSlots(date, cabin, location)
  \/ \E date \in AskedDates, location \in AskedLocations :
       QueryConsultationOpenSlots(date, location)

SpecQuery == Init /\ [][NextQuery]_vars

\* Concurrent delete_booking requests between sequential submissions.
NextDelete ==
  \/ \E c \in Clients : SubmitAsked(c)
  \/ \E c \in Clients : CheckBlood(c)
  \/ \E c \in Clients : CheckConsultation(c)
  \/ \E c \in Clients : SaveBooking(c)
  \/ \E c \in Clients, booking_id \in DeletedIds : DeleteSelect(c, booking_id)
  \/ \E c \in Clients : DeleteExecute(c)

SpecDelete == Init /\ [][NextDelete]_vars

\* ----------------------------------------------------------------- claims

\* The stored rows with the Primary key of row b.
SamePrimaryKey(b) ==
  {x \in bookings : /\ x.location = b.location
                    /\ x.blood_test_date = b.blood_test_date
                    /\ x.blood_test_time = b.blood_test_time
                    /\ x.blood_test_cabin = b.blood_test_cabin}

\* The stored rows with the Secondary key of row b.
SameSecondaryKey(b) ==
  {x \in bookings : /\ x.location = b.location
                    /\ x.consultation_date = b.consultation_date
                    /\ x.consultation_time = b.consultation_time}

\* C1: with the configuration fixed, the stored reservations of one Primary
\* key (location, date, time, cabin) never outnumber people_per_blood_cabin.
C1_NoPrimaryOverbooking ==
  \A b \in bookings :
    Cardinality(SamePrimaryKey(b)) <= config.people_per_blood_cabin

\* C2: with the configuration fixed, the stored reservations of one Secondary
\* key (location, date, time) never outnumber
\* consultation_cabins_count * people_per_consultation_cabin.
C2_NoSecondaryOverbooking ==
  \A b \in bookings :
    HasConsultation(b) =>
      Cardinality(SameSecondaryKey(b))
        <= config.consultation_cabins_count * config.people_per_consultation_cabin


\* The message of a Primary slot-unavailable rejection.
BloodUnavailable == "Selected blood test slot is no longer available"

\* The message of a Secondary slot-unavailable rejection.
ConsultationUnavailable == "Selected consultation slot is no longer available"

\* C3: when N + k submissions for one empty Primary key of capacity N have
\* all ended, exactly N are committed and exactly k are rejected as slot
\* unavailable.
C3_ExactlyNSucceed ==
  (\A c \in BurstClients : Ended(req[c])) =>
    LET N  == config.people_per_blood_cabin
        ok == {c \in BurstClients : req[c].pc = "committed"}
        no == {c \in BurstClients : req[c].pc = "rejected"}
    IN  /\ Cardinality(ok) = N
        /\ Cardinality(no) = NumClients + 1 - N
        /\ \A c \in no : req[c].reason = BloodUnavailable

PrimaryLegValid(d, cfg, day) ==
  /\ d.blood_test_date # None
  /\ is_valid_date(d.blood_test_date, day) = "true"
  /\ InList(d.blood_test_time, BloodSlots(cfg))

\* The stored count of the Primary key of request data.
PrimaryCount(d) ==
  BloodBookedCount(bookings, d.blood_test_date, d.blood_test_cabin,
                   d.location, d.blood_test_time)

C6_CabinInRange ==
  \A b \in bookings : b.blood_test_cabin \in 1..config.blood_test_cabins_count

\* C7: when a reservation is committed, its Primary date parses, is not
\* before the current date and is in blood_test_allowed_dates, and its time is
\* a generated Primary slot, for the configuration and date of that moment.
C7_PrimaryLegValidAtCommit ==
  [][\A c \in DOMAIN req :
       (req[c].pc = "slot_ok" /\ req'[c].pc = "committed")
       => /\ PrimaryLegValid(req[c].data, config, today)
          /\ InList(req[c].data.blood_test_date, config.blood_test_allowed_dates)
    ]_vars

\* C8: every stored reservation with a Secondary date or time has both, the
\* date in consultation_allowed_dates and the time a generated Secondary slot
\* (the configuration being fixed).
C8_SecondaryLegComplete ==
  \A b \in bookings :
    (Truthy(b.consultation_date) \/ TruthyTime(b.consultation_time))
    => /\ Truthy(b.consultation_date)
       /\ TruthyTime(b.consultation_time)
       /\ InList(b.consultation_date, config.consultation_allowed_dates)
       /\ InList(b.consultation_time, ConsultationSlots(config))

\* C9: a validated submission with no Primary leg and a Secondary leg whose
\* slot is generated and has room is not rejected by the availability check.
C9_SecondaryOnlyAccepted ==
  [][\A c \in DOMAIN req :
       ( /\ req[c].pc = "validated"
         /\ req'[c] # req[c]
         /\ ~ Truthy(req[c].data.blood_test_date)
         /\ HasConsultation(req[c].data)
         /\ InList(req[c].data.consultation_time, ConsultationSlots(config))
         /\ ConsultationSlotOpen(config, bookings, req[c].data.consultation_date,
                                 req[c].data.location, req[c].data.consultation_time) )
       => req'[c].pc # "rejected"
    ]_vars

\* The dates, locations and cabins availability is queried for.
QueryDates == DOMAIN DayOf \cup {"", "not-a-date"}
QueryLocations == {"bangalore", "pune", "mars"}
QueryCabins == 0..3

BloodDatePast == "Invalid blood test date or date is in the past"
ConsultationDatePast == "Invalid consultation date or date is in the past"
BloodDateNotOffered ==
  "Invalid blood test date. Please select from the available dates."
ConsultationDateNotOffered ==
  "Invalid consultation date. Please select from the available dates."

\* A form whose person fields, location, age and cabin pass the checks that
\* precede the date checks.
StructurallyValid(form, cfg) ==
  /\ Truthy(form.person) /\ Truthy(form.age) /\ Truthy(form.location)
  /\ InList(form.location, cfg.locations)
  /\ form.age \in DOMAIN IntOf
  /\ Truthy(form.blood_test_date) => form.blood_test_cabin \in DOMAIN IntOf

\* A date that parses and lies before the current date.
DateInPast(d, day) == d \in DOMAIN DayOf /\ DayOf[d] < day

\* A date that parses and is not before the current date.
DateNotPast(d, day) == d \in DOMAIN DayOf /\ DayOf[d] >= day

\* C11: a structurally valid submission is rejected with the past-date reason
\* of the first leg whose date is in the past, and otherwise with the
\* not-an-offered-date reason of the first leg whose date parses, is not in
\* the past and is absent from that service's allow-list; the reasons differ
\* from one another, and a step that rejects a request writes nothing.
C11_DateRejectionReasons ==
  /\ [](\A form \in Forms :
          StructurallyValid(form, config) =>
            LET r  == Validated(form, config, today)
                bd == form.blood_test_date
                cd == form.consultation_date
                blood_not_past == ~ Truthy(bd) \/ DateNotPast(bd, today)
                cons_not_past  == ~ Truthy(cd) \/ DateNotPast(cd, today)
                blood_offered  ==
                  ~ Truthy(bd) \/ InList(bd, config.blood_test_allowed_dates)
            IN  /\ DateInPast(bd, today) => r = Rejected(BloodDatePast)
                /\ (blood_not_past /\ DateInPast(cd, today))
                     => r = Rejected(ConsultationDatePast)
                /\ ( /\ DateNotPast(bd, today)
                     /\ ~ InList(bd, config.blood_test_allowed_dates)
                     /\ cons_not_past )
                     => r = Rejected(BloodDateNotOffered)
                /\ ( /\ blood_not_past /\ blood_offered
                     /\ DateNotPast(cd, today)
                     /\ ~ InList(cd, config.consultation_allowed_dates) )
                     => r = Rejected(ConsultationDateNotOffered))
  /\ Cardinality({BloodDatePast, ConsultationDatePast, BloodDateNotOffered,
                  ConsultationDateNotOffered}) = 4
  /\ [][\A c \in DOMAIN req :
          (req[c].pc = "idle" /\ req'[c].pc = "rejected")
          => (bookings' = bookings /\ next_id' = next_id)
       ]_vars

\* C11 witness: one submission was rejected for a date not offered and
\* another for a date in the past, and the table is as it was.
C11_Witness ==
  \E c1, c2 \in DOMAIN req :
    /\ req[c1] = Rejected(BloodDateNotOffered)
    /\ req[c2] = Rejected(BloodDatePast)
    /\ bookings = {}

\* A step that is a slot_detail call with the arguments of the last reply,
\* itself a slot_detail reply.
RepeatedSlotDetail ==
  /\ reply # NoReply /\ reply.query = "slot_detail"
  /\ reply'.query = "slot_detail"
  /\ reply'.date = reply.date
  /\ reply'.cabin = reply.cabin
  /\ reply'.location = reply.location
  /\ ~ reply'.stale

\* C12 as stated: a slot_detail call that repeats the last one, no commit
\* having been made in between, returns the mapping the last one returned and
\* leaves the table as it is.
C12_IdempotentRead_NoCommit ==
  [][(RepeatedSlotDetail /\ reply.at = next_id)
     => (reply'.result = reply.result /\ bookings' = bookings)]_vars

\* C12 amended: a slot_detail call that repeats the last one, the table, the
\* configuration and the date not having changed in between, returns the
\* mapping the last one returned, and no slot_detail call changes the table.
C12_IdempotentRead ==
  [][/\ (RepeatedSlotDetail /\ ~ reply.stale) => reply'.result = reply.result
     /\ (reply' # reply /\ reply'.query = "slot_detail" /\ ~ reply'.stale)
        => bookings' = bookings /\ next_id' = next_id]_vars

\* C12 witness: slot_detail was called for a key that holds a reservation,
\* after the commit, and reported the slot as taken.
C12_Witness ==
  /\ reply # NoReply /\ reply.query = "slot_detail" /\ ~ reply.stale
  /\ reply.result # <<>>
  /\ \E slot \in DOMAIN reply.result : reply.result[slot] = 0
  /\ bookings # {}

\* C13: when generate_time_slots returns for open < close and duration > 0,
\* its result holds, in increasing order, exactly the start times
\* open + i*duration with open + (i+1)*duration <= close (the result the
\* availability queries compute with); (09:00, 13:00, 15) gives 16 slots
\* ending with 12:45 and (10:00, 10:10, 15) gives none.
C13_SlotGeneration ==
  (gen.pc = "done" /\ gen.duration > 0
   /\ ParseTime(gen.start_time) < ParseTime(gen.end_time))
  => LET open  == ParseTime(gen.start_time)
         close == ParseTime(gen.end_time)
         d     == gen.duration
         slots == gen.slots
     IN  /\ \A i \in 0..MaxSlots :
              (open + (i + 1) * d <= close)
              <=> (i + 1 <= Len(slots) /\ slots[i + 1] = FormatTime(open + i * d))
         /\ \A i, j \in 1..Len(slots) :
              i < j => ParseTime(slots[i]) < ParseTime(slots[j])
         /\ slots = generate_time_slots(gen.start_time, gen.end_time, d)
         /\ (gen.start_time = <<9, 0>> /\ gen.end_time = <<13, 0>> /\ d = 15)
            => (Len(slots) = 16 /\ slots[1] = <<9, 0>> /\ slots[16] = <<12, 45>>)
         /\ (gen.start_time = <<10, 0>> /\ gen.end_time = <<10, 10>> /\ d = 15)
            => slots = <<>>

\* C13 witness: generate_time_slots('09:00', '13:00', 15) returned 16 slots.
C13_Witness ==
  /\ gen.pc = "done"
  /\ gen.start_time = <<9, 0>> /\ gen.end_time = <<13, 0>> /\ gen.duration = 15
  /\ Len(gen.slots) = 16

\* C14: a call of generate_time_slots with duration <= 0 or open >= close
\* never runs its loop body: it appends nothing before it returns.
C14_DegenerateEmpty ==
  (gen # NoCall
   /\ (gen.duration <= 0 \/ ParseTime(gen.start_time) >= ParseTime(gen.end_time)))
  => gen.slots = <<>>

\* C15: for each availability query, what it returns for a date that fails
\* the date check differs from what it returns for a valid date on which no
\* seat remains.
C15_InvalidDateDistinct ==
  \A bad, good \in AskedDates, location \in AskedLocations, cabin \in AskedCabins :
    (is_valid_date(bad, today) # "true" /\ is_valid_date(good, today) = "true")
    => LET summary(d) == get_cabin_availability(d, location, config, today, bookings)
           detail(d)  == get_slots_with_availability(d, cabin, location, config,
                                                     today, bookings)
           open(d)    == Blood_get_available_slots(d, cabin, location, config,
                                                   today, bookings)
           copen(d)   == Consultation_get_available_slots(d, location, config,
                                                          today, bookings)
       IN  /\ (\A k \in DOMAIN summary(good) : summary(good)[k] = 0)
              => summary(bad) # summary(good)
           /\ (\A slot \in DOMAIN detail(good) : detail(good)[slot] = 0)
              => detail(bad) # detail(good)
           /\ open(good) = <<>> => open(bad) # open(good)
           /\ copen(good).slots = <<>> => copen(bad) # copen(good)

\* C16: the live configuration always satisfies the rules of validate_config,
\* and posting a form that breaks one of them (times, ranges, locations,
\* dates) leaves the live configuration as it was.
C16_InvalidConfigNeverLive ==
  /\ validate_config(config)
  /\ \A form \in AdminForms :
       ~ validate_config(form) => admin_config_save(config, form) = config

\* C16 witness: the live configuration is an edited one, and a form that
\* breaks a rule is posted against it without effect.
C16_Witness ==
  /\ config # InitConfig
  /\ \E form \in AdminForms :
       ~ validate_config(form) /\ admin_config_save(config, form) = config

\* A step that is an availability query: it hands back a reply.
QueryStep == reply' # reply /\ reply' # NoReply /\ ~ reply'.stale

C18_DeletionFreesCapacity ==
  [][(bookings' # bookings /\ next_id' = next_id)
     => /\ config' = config /\ today' = today /\ req' = req
        /\ \E b \in bookings :
             /\ bookings' = bookings \ {b}
             /\ is_valid_date(b.blood_test_date, today) = "true"
                => LET before == get_slots_with_availability(b.blood_test_date,
                                   b.blood_test_cabin, b.location, config, today,
                                   bookings)
                       after  == get_slots_with_availability(b.blood_test_date,
                                   b.blood_test_cabin, b.location, config, today,
                                   bookings')
                       cabins_before == get_cabin_availability(b.blood_test_date,
                                          b.location, config, today, bookings)
                       cabins_after  == get_cabin_availability(b.blood_test_date,
                                          b.location, config, today, bookings')
                       count == BloodBookedCount(bookings, b.blood_test_date,
                                  b.blood_test_cabin, b.location, b.blood_test_time)
                   IN  /\ b.blood_test_time \in DOMAIN before
                          => /\ after[b.blood_test_time] =
                                  IF count > config.people_per_blood_cabin THEN 0
                                  ELSE before[b.blood_test_time] + 1
                             /\ count = config.people_per_blood_cabin
                                => BloodChecked(b, config, today, bookings').pc
                                     # "rejected"
                       /\ b.blood_test_cabin \in DOMAIN cabins_before
                          => cabins_after[b.blood_test_cabin] =
                               IF CabinBookedCount(bookings, b.blood_test_date,
                                                   b.location, b.blood_test_cabin)
                                    > Len(BloodSlots(config))
                                        * config.people_per_blood_cabin
                               THEN 0
                               ELSE cabins_before[b.blood_test_cabin] + 1
             /\ ( /\ HasConsultation(b)
                  /\ is_valid_date(b.consultation_date, today) = "true"
                  /\ InList(b.consultation_time, ConsultationSlots(config))
                  /\ ConsultationBookedCount(bookings, b.consultation_date,
                                             b.location, b.consultation_time)
                       = config.consultation_cabins_count
                           * config.people_per_consultation_cabin )
                => ConsultationChecked(b, config, today, bookings').pc = "slot_ok"
    ]_vars

\* C18 witness: slot_detail reported a key as full when one reservation had
\* been committed; that reservation is deleted, and a second one, committed
\* afterwards, now holds the key.
C18_Witness ==
  /\ config = InitConfig
  /\ reply # NoReply /\ reply.query = "slot_detail" /\ reply.at = 2
  /\ \E b \in bookings :
       /\ b.id = 2
       /\ ~ \E a \in bookings : a.id = 1
       /\ reply.date = b.blood_test_date
       /\ reply.cabin = b.blood_test_cabin
       /\ reply.location = b.location
       /\ b.blood_test_time \in DOMAIN reply.result
       /\ reply.result[b.blood_test_time] = 0

\* C19: a request is idle, in one of the handler's intermediate positions, or
\* ended as committed or rejected, and an ended request stays as it ended; a
\* step that commits a request adds exactly one row, carrying every field of
\* the request under the returned id; a step that rejects a request, or moves
\* it between intermediate positions, leaves the table as it is; and the
\* handler can always take its next step.
C19_TerminalOutcomes ==
  /\ [](\A c \in DOMAIN req :
          /\ req[c].pc \in {"idle", "validated", "blood_ok", "slot_ok",
                             "committed", "rejected"}
          /\ req[c].pc = "validated" => ENABLED CheckBlood(c)
          /\ req[c].pc = "blood_ok" => ENABLED CheckConsultation(c)
          /\ req[c].pc = "slot_ok" => ENABLED SaveBooking(c))
  /\ [][\A c \in DOMAIN req :
          /\ Ended(req[c]) => req'[c] = req[c]
          /\ (req[c].pc # "committed" /\ req'[c].pc = "committed")
             => /\ req[c].pc = "slot_ok"
                /\ bookings' = bookings \cup {NewRow(req'[c].booking_id, req[c].data)}
                /\ Cardinality(bookings') = Cardinality(bookings) + 1
                /\ \A b \in bookings : b.id # req'[c].booking_id
          /\ (req'[c] # req[c] /\ req'[c].pc # "committed")
             => bookings' = bookings /\ next_id' = next_id
       ]_vars

\* C19 witness: one attempt ended committed with its row stored, another
\* ended rejected, and the table holds that one row.
C19_Witness ==
  \E c1, c2 \in DOMAIN req :
    /\ req[c1].pc = "committed"
    /\ req[c2].pc = "rejected"
    /\ Cardinality(bookings) = 1
    /\ \E b \in bookings : b.id = req[c1].booking_id

PrimaryStartTimes ==
  LET open  == ParseTime(config.blood_test_start_time)
      close == ParseTime(config.blood_test_end_time)
      d     == config.slot_duration_blood
  IN  {FormatTime(open + i * d) : i \in {k \in 0..MaxSlots : open + (k + 1) * d <= close}}

\* The stored reservations with a location, Primary date and cabin.
StoredInCabin(location, date, cabin) ==
  {b \in bookings : /\ b.location = location
                    /\ b.blood_test_date = date
                    /\ b.blood_test_cabin = cabin}

\* C21: for a valid date, slot_detail maps exactly the generated Primary
\* slots, each to people_per_blood_cabin minus the number of stored
\* reservations with that location, date, cabin and slot, or 0 when that is
\* negative, for the table and configuration of the moment.
C21_SlotDetailValue ==
  \A date \in AskedDates, cabin \in AskedCabins, location \in AskedLocations :
    is_valid_date(date, today) = "true"
    => LET detail == get_slots_with_availability(date, cabin, location, config,
                                                 today, bookings)
           left(slot) ==
             config.people_per_blood_cabin
             - Cardinality({b \in StoredInCabin(location, date, cabin) :
                              b.blood_test_time = slot})
       IN  /\ DOMAIN detail = PrimaryStartTimes
           /\ \A slot \in PrimaryStartTimes :
                detail[slot] = IF left(slot) > 0 THEN left(slot) ELSE 0

\* C21 witness: with two generated slots and one stored reservation,
\* slot_detail reports 0 for the reserved slot and 1 for the other.
C21_Witness ==
  \E b \in bookings :
    /\ is_valid_date(b.blood_test_date, today) = "true"
    /\ LET detail == get_slots_with_availability(b.blood_test_date,
                       b.blood_test_cabin, b.location, config, today, bookings)
       IN  /\ DOMAIN detail = {<<9, 0>>, <<9, 15>>}
           /\ detail[b.blood_test_time] = 0
           /\ \E slot \in DOMAIN detail : detail[slot] = 1

\* C22: for a valid date, cabin_summary maps exactly the cabins
\* 1..blood_test_cabins_count, each to the number of generated slots times
\* people_per_blood_cabin minus the number of stored reservations with that
\* location, date and cabin, or 0 when that is negative.
C22_CabinSummaryValue ==
  \A date \in AskedDates, location \in AskedLocations :
    is_valid_date(date, today) = "true"
    => LET summary == get_cabin_availability(date, location, config, today, bookings)
           left(c) == Cardinality(PrimaryStartTimes) * config.people_per_blood_cabin
                      - Cardinality(StoredInCabin(location, date, c))
       IN  /\ \A c \in DOMAIN summary : 1 <= c /\ c <= config.blood_test_cabins_count
           /\ \A c \in 1..config.blood_test_cabins_count :
                /\ c \in DOMAIN summary
                /\ summary[c] = IF left(c) > 0 THEN left(c) ELSE 0

\* C22 witness: with two cabins of two slots, cabin_summary reports 1 for
\* the cabin holding one reservation and 2 for the other.
C22_Witness ==
  \E b \in bookings :
    /\ is_valid_date(b.blood_test_date, today) = "true"
    /\ LET summary == get_cabin_availability(b.blood_test_date, b.location,
                                             config, today, bookings)
       IN  /\ DOMAIN summary = {1, 2}
           /\ summary[b.blood_test_cabin] = 1
           /\ \E c \in DOMAIN summary : summary[c] = 2

\* C23: for a valid date, the Primary open_slots are exactly the generated
\* slots, in generation order, whose slot_detail value is greater than 0.
C23_OpenSlotsAgree ==
  \A date \in AskedDates, cabin \in AskedCabins, location \in AskedLocations :
    is_valid_date(date, today) = "true"
    => LET detail == get_slots_with_availability(date, cabin, location, config,
                                                 today, bookings)
       IN  Blood_get_available_slots(date, cabin, location, config, today, bookings)
           = SelectSeq(BloodSlots(config), LAMBDA slot : detail[slot] > 0)

\* C23 witness: with a headcount of 2, a slot holding one reservation has a
\* slot_detail value of 1 and is listed open with the other generated slots.
C23_Witness ==
  \E b \in bookings :
    LET date   == b.blood_test_date
        open   == Blood_get_available_slots(date, b.blood_test_cabin, b.location,
                                            config, today, bookings)
        detail == get_slots_with_availability(date, b.blood_test_cabin, b.location,
                                              config, today, bookings)
    IN  /\ is_valid_date(date, today) = "true"
        /\ config.people_per_blood_cabin = 2
        /\ detail[b.blood_test_time] = 1
        /\ open = BloodSlots(config)

\* The start times open + i*duration whose slot ends by close, for the
\* Secondary schedule of the current configuration.
SecondaryStartTimes ==
  LET open  == ParseTime(config.consultation_start_time)
      close == ParseTime(config.consultation_end_time)
      d     == config.slot_duration_consultation
  IN  {FormatTime(open + i * d) : i \in {k \in 0..MaxSlots : open + (k + 1) * d <= close}}

\* The stored reservations with a location, Secondary date and slot.
StoredInConsultationSlot(location, date, slot) ==
  {b \in bookings : /\ b.location = location
                    /\ b.consultation_date = date
                    /\ b.consultation_time = slot}

\* C24: for a valid date, the Secondary open_slots are exactly the generated
\* Secondary slots, in generation order (ascending start time), that hold
\* fewer stored reservations for the location, date and slot than
\* consultation_cabins_count times people_per_consultation_cabin.
C24_ConsultationOpenSlots ==
  \A date \in AskedDates, location \in AskedLocations :
    is_valid_date(date, today) = "true"
    => LET open == Consultation_get_available_slots(date, location, config,
                                                    today, bookings)
           capacity == config.consultation_cabins_count
                       * config.people_per_consultation_cabin
       IN  /\ ~open.is_none
           /\ ListSet(open.slots)
              = {slot \in SecondaryStartTimes :
                   Cardinality(StoredInConsultationSlot(location, date, slot)) < capacity}
           /\ \A i, j \in 1..Len(open.slots) :
                i < j => ParseTime(open.slots[i]) < ParseTime(open.slots[j])

\* C24 witness: with two Secondary cabins of one person, a slot holding one
\* reservation is still listed before the later free slot.
C24_Witness ==
  \E b \in bookings :
    /\ is_valid_date(b.consultation_date, today) = "true"
    /\ config.consultation_cabins_count = 2
    /\ config.people_per_consultation_cabin = 1
    /\ Cardinality(StoredInConsultationSlot(b.location, b.consultation_date,
                                            b.consultation_time)) = 1
    /\ Consultation_get_available_slots(b.consultation_date, b.location, config,
                                        today, bookings).slots
       = <<b.consultation_time, <<10, 15>>>>

\* A step in which a submission ends rejected.
RejectionStep ==
  \E c \in Clients : req[c].pc # "rejected" /\ req'[c].pc = "rejected"

\* C25: an availability query and a rejected submission leave the table and
\* the live configuration as they were, and a step in which a stored
\* reservation is changed or removed is a deletion.
C25_Frame ==
  [][/\ QueryStep => bookings' = bookings /\ config' = config
     /\ RejectionStep => bookings' = bookings /\ config' = config
     /\ (\E b \in bookings : b \notin bookings') => DeleteBooking]_vars

\* C25 witness: a reply was handed back and a submission was rejected while
\* the table holds a reservation and the configuration is an edited one.
C25_Witness ==
  /\ reply # NoReply /\ ~ reply.stale
  /\ \E c \in Clients : req[c].pc = "rejected"
  /\ bookings # {}
  /\ config # InitConfig

\* The stored reservations of a location.
RowsAt(location) == {b \in bookings : b.location = location}

\* The answers of the four availability queries for a location, from a table.
AnswersAt(location, rows) ==
  [date \in QueryDates |->
     [ cabin_summary      |-> get_cabin_availability(date, location, config, today, rows),
       consultation_slots |-> Consultation_get_available_slots(date, location, config,
                                                               today, rows),
       by_cabin |->
         [cabin \in QueryCabins |->
            [ slot_detail |-> get_slots_with_availability(date, cabin, location,
                                                          config, today, rows),
              open_slots  |-> Blood_get_available_slots(date, cabin, location,
                                                        config, today, rows) ]] ]]

\* C26: a commit or a deletion of a reservation of one location leaves every
\* query answer for every other location as it was, and the capacity checks
\* of a submission give the outcome they give on the rows of its own location
\* alone.
C26_LocationIsolation ==
  /\ [](\A c \in Clients :
          LET data == req[c].data IN
          /\ req[c].pc = "validated"
             => BloodChecked(data, config, today, bookings)
                = BloodChecked(data, config, today, RowsAt(data.location))
          /\ req[c].pc = "blood_ok"
             => ConsultationChecked(data, config, today, bookings)
                = ConsultationChecked(data, config, today, RowsAt(data.location)))
  /\ [][bookings' # bookings
        => \A A \in QueryLocations :
             (\A b \in (bookings \ bookings') \cup (bookings' \ bookings) :
                b.location = A)
             => \A B \in QueryLocations \ {A} :
                  AnswersAt(B, bookings') = AnswersAt(B, bookings)]_vars

\* C26 witness: with one seat per slot, each of two locations holds its one
\* reservation, both of the same Primary and Secondary slot.
C26_Witness ==
  /\ config.people_per_blood_cabin = 1
  /\ \E a, b \in bookings :
       /\ a.location # b.location
       /\ a.blood_test_date = b.blood_test_date
       /\ a.blood_test_time = b.blood_test_time
       /\ a.blood_test_cabin = b.blood_test_cabin
       /\ Truthy(a.consultation_date)
       /\ a.consultation_date = b.consultation_date
       /\ a.consultation_time = b.consultation_time
       /\ Cardinality(RowsAt(a.location)) = 1
       /\ Cardinality(RowsAt(b.location)) = 1

\* The messages of a rejection for invalid input.
InvalidInputReasons ==
  { "Please fill in all required fields", "Invalid location selected",
    "Invalid age or cabin number", "Error validating data" }

\* A form with a missing person field, a location outside the configured
\* ones, or an age or a cabin number that is not an integer.
StructurallyInvalid(form, cfg) ==
  \/ ~ (Truthy(form.person) /\ Truthy(form.age) /\ Truthy(form.location))
  \/ ~ InList(form.location, cfg.locations)
  \/ form.age \notin DOMAIN IntOf
  \/ Truthy(form.blood_test_cabin) /\ form.blood_test_cabin \notin DOMAIN IntOf

\* C27: a submission with a missing person field, a location outside the
\* configured ones, or an age or cabin number that is not an integer ends, in
\* the step that posts it, rejected for invalid input, before any date or
\* capacity check, and the table is unchanged.
C27_StructuralFirst ==
  [][\A c \in Clients : \A form \in Forms :
       (StructurallyInvalid(form, config) /\ Submit(c, form))
       => /\ req'[c].pc = "rejected"
          /\ req'[c].reason \in InvalidInputReasons
          /\ bookings' = bookings]_vars

\* C28: a delete_booking request that returns has removed the row of its id
\* and reports success when that row was stored, reports failure and changed
\* nothing when it was not, and has left every other row as it was; of the
\* returned requests for one id that found the row, exactly one reports
\* success.
C28_DeletionById ==
  /\ [][\A c \in Clients :
          (del_req[c].pc # "done" /\ del_req'[c].pc = "done")
          => LET stored == {b \in bookings : b.id = del_req'[c].booking_id} IN
             /\ Cardinality(stored) <= 1
             /\ bookings' = bookings \ stored
             /\ del_req'[c].success <=> stored # {}]_vars
  /\ [](\A booking_id \in DeletedIds :
          LET returned == {c \in Clients : /\ del_req[c].pc = "done"
                                           /\ del_req[c].booking_id = booking_id
                                           /\ del_req[c].found}
          IN  returned # {}
              => Cardinality({c \in returned : del_req[c].success}) = 1)

\* C28 witness: two requests for one id both found the row; one deleted it
\* and reports success, the other reports failure, and another row is stored.
C28_Witness ==
  \E c1, c2 \in Clients :
    /\ del_req[c1].pc = "done" /\ del_req[c2].pc = "done"
    /\ del_req[c1].booking_id = del_req[c2].booking_id
    /\ del_req[c1].found /\ del_req[c2].found
    /\ del_req[c1].success /\ ~ del_req[c2].success
    /\ bookings # {}

\* Whether slot_detail reports a free seat in some slot of a cabin.
SomeSlotFree(date, cabin, location) ==
  LET detail == get_slots_with_availability(date, cabin, location, config,
                                            today, bookings)
  IN  \E slot \in DOMAIN detail : detail[slot] > 0

\* Whether cabin_summary reports a free seat in a cabin.
CabinFree(date, cabin, location) ==
  get_cabin_availability(date, location, config, today, bookings)[cabin] > 0

\* C29 as stated: for every valid date, location and cabin in range,
\* cabin_summary is greater than 0 for the cabin if and only if slot_detail is
\* greater than 0 for at least one of its slots.
C29_SummaryIffDetail ==
  \A date \in AskedDates, location \in AskedLocations :
    is_valid_date(date, today) = "true"
    => \A cabin \in 1..config.blood_test_cabins_count :
         CabinFree(date, cabin, location) <=> SomeSlotFree(date, cabin, location)

\* C29 amended: cabin_summary is greater than 0 for the cabin only if
\* slot_detail is greater than 0 for at least one of its slots; and if, when
\* no generated slot of the cabin holds more stored reservations than
\* people_per_blood_cabin and every stored reservation of the cabin for the
\* date is at a generated slot.
C29_SummaryOnlyIfDetail ==
  \A date \in AskedDates, location \in AskedLocations :
    is_valid_date(date, today) = "true"
    => \A cabin \in 1..config.blood_test_cabins_count :
         LET stored == StoredInCabin(location, date, cabin)
             over   == \E slot \in PrimaryStartTimes :
                         Cardinality({b \in stored : b.blood_test_time = slot})
                           > config.people_per_blood_cabin
             stray  == \E b \in stored : b.blood_test_time \notin PrimaryStartTimes
         IN  /\ CabinFree(date, cabin, location)
                => SomeSlotFree(date, cabin, location)
             /\ (~ over /\ ~ stray /\ SomeSlotFree(date, cabin, location))
                => CabinFree(date, cabin, location)

\* C29 witness: a cabin holds a reservation in a slot that slot_detail reports
\* full, another slot is free, and cabin_summary reports the cabin free.
C29_Witness ==
  \E b \in bookings :
    /\ is_valid_date(b.blood_test_date, today) = "true"
    /\ b.blood_test_cabin \in 1..config.blood_test_cabins_count
    /\ get_slots_with_availability(b.blood_test_date, b.blood_test_cabin,
         b.location, config, today, bookings)[b.blood_test_time] = 0
    /\ SomeSlotFree(b.blood_test_date, b.blood_test_cabin, b.location)
    /\ CabinFree(b.blood_test_date, b.blood_test_cabin, b.location)

\* C30: a configuration that validate_config accepts generates at least one
\* slot for each service.
C30_AcceptedConfigHasSlots ==
  validate_config(config)
  => /\ Len(generate_time_slots(config.blood_test_start_time,
                                config.blood_test_end_time,
                                config.slot_duration_blood)) > 0
     /\ Len(generate_time_slots(config.consultation_start_time,
                                config.consultation_end_time,
                                config.slot_duration_consultation)) > 0

\* The ids returned by the commits made so far, deleted rows included.
ReturnedIds == {req[c].booking_id : c \in {d \in DOMAIN req : req[d].pc = "committed"}}

\* C31: the id a commit returns differs from the id of every stored row and
\* from every id returned by an earlier commit, whether or not that row was
\* deleted since; so no two commits return the same id and no two stored rows
\* share one.
C31_UniqueIds ==
  /\ [][\A c \in DOMAIN req :
          (req[c].pc # "committed" /\ req'[c].pc = "committed")
          => /\ req'[c].booking_id \notin ReturnedIds
             /\ req'[c].booking_id \notin {b.id : b \in bookings}
             /\ \E b \in bookings' : b.id = req'[c].booking_id]_vars
  /\ [](\A c1, c2 \in DOMAIN req :
          (c1 # c2 /\ req[c1].pc = "committed" /\ req[c2].pc = "committed")
          => req[c1].booking_id # req[c2].booking_id)
  /\ [](\A a, b \in bookings : a.id = b.id => a = b)

\* C31 witness: a commit returned an id, its row was deleted, and a later
\* commit returned another id, whose row is stored.
C31_Witness ==
  \E c1, c2 \in DOMAIN req :
    /\ req[c1].pc = "committed" /\ req[c2].pc = "committed"
    /\ req[c1].booking_id < req[c2].booking_id
    /\ \A b \in bookings : b.id # req[c1].booking_id
    /\ \E b \in bookings : b.id = req[c2].booking_id

====
